---- MODULE Spec2Model ----
(***************************************************************************)
(* A model of examples/notebooks/Estimators.ipynb: the input adapter       *)
(* input_fn, the feature/weight columns, the metric closure mean_auc, the  *)
(* estimator built from the DeepChem model, and the two train/evaluate     *)
(* paths of the notebook.                                                  *)
(*                                                                         *)
(* The notebook drives code it does not contain.  Dataset.make_iterator,   *)
(* Model.fit/evaluate and Model.make_estimator belong to DeepChem and are  *)
(* modelled from the design document (section 4.1: fixed-size batches for  *)
(* the requested number of passes; section 1: two alternative paths).      *)
(* tf.estimator and tf.metrics are TensorFlow's; they are modelled from    *)
(* the calls the notebook makes and from the log the notebook records.     *)
(***************************************************************************)
EXTENDS Integers, Sequences, FiniteSets, TLC

VARIABLES
  pc,           \* position in the notebook's linear script
  train_n,      \* number of samples of train_dataset
  test_n,       \* number of samples of test_dataset
  epochs,       \* the epoch count the training lambda gives input_fn
  dc_step,      \* the DeepChem model's own training progress (model.fit)
  dirs,         \* checkpoint directories: directory name -> set of checkpoints
  estimator,    \* the estimator make_estimator returned, or NoValue
  lib,          \* outcomes of the library calls of the running input_fn call
  call,         \* what the last input_fn call did: calls made, error raised, value
  it,           \* the tf.data iterator the last input_fn call created
  last_batch,   \* the (x, y, weights) tuple the iterator yielded last
  features,     \* the value of the feature mapping for the batch pulled last
  labels,       \* the value of the label tensor for the batch pulled last
  pulled,       \* batches pulled from the current iterator
  delivered,    \* sample index -> times delivered by the current iterator
  global_step,  \* the estimator's global step
  params,       \* version of the estimator's parameters (gradient updates applied)
  first_step,   \* the first step estimator.train logged (0: none yet)
  timer_saves,  \* checkpoints saved by the 600 s timer of the saver hook
  restored,     \* the checkpoint estimator.evaluate restored, or NoValue
  report,       \* the dict estimator.evaluate returned, or NoValue
  n_tasks,      \* len(tasks)
  i,            \* loop variable of mean_auc
  metric_ops,   \* mean_auc's list metric_ops
  update_ops,   \* mean_auc's list update_ops
  mean_metric,  \* the tensor mean_auc returns first
  update_all,   \* the operation mean_auc returns second
  acc,          \* tf.metrics' accumulators: accumulator id -> confusion counts
  fed,          \* task -> confusion counts of that task's columns of the data fed
  updates,      \* times update_all was run
  mean_value,   \* the value read from mean_metric since the last update (<<>>: none)
  apc           \* position in the metric scenario

pipeVars == <<pc, train_n, test_n, epochs, dc_step, dirs, estimator, lib, call, it,
              last_batch, features, labels, pulled, delivered, global_step, params,
              first_step, timer_saves, restored, report>>
aucVars == <<n_tasks, i, metric_ops, update_ops, mean_metric, update_all, acc, fed,
             updates, mean_value, apc>>
vars == <<pipeVars, aucVars>>

----------------------------------------------------------------------------
(* Bounds of the model. *)
MaxFullBatches == 1
MaxEpochs == 2
MaxTimerSaves == 1
MaxTasks == 2
MaxUpdates == 2

(* Constants of the notebook. *)
BatchSizeHalved == 100 \div 2

BatchSize == 100
NbEpoch == 100
EvalEpochs == 1

NoValue == "None"
NoReturn == <<>>
NoError == "ok"
LibErrors == {"InvalidArgumentError", "OutOfRangeError"}
Outcomes == {NoError} \cup LibErrors

CeilDiv(a, b) == (a + b - 1) \div b

\* Dataset sizes around the multiples of the batch size.
DatasetSizes ==
  {n \in 1..(MaxFullBatches * BatchSize + 1) :
     \E k \in 0..MaxFullBatches : n \in {k * BatchSize - 1, k * BatchSize, k * BatchSize + 1}}

----------------------------------------------------------------------------
(* The datasets: row s of dataset d has features, labels and weights.  Row 0 *)
(* is the padding row.                                                       *)
RowX(d, s) == <<"X", d, s>>
RowY(d, s) == <<"y", d, s>>
RowW(d, s) == <<"w", d, s>>

train_dataset == [name |-> "train", n |-> train_n]
test_dataset == [name |-> "test", n |-> test_n]

----------------------------------------------------------------------------
(* Dataset.make_iterator(batch_size, epochs) and the iterator's get_next.   *)
BatchIdsShort(iter) ==
  [k \in 1..(IF iter.pos + iter.batch_size <= iter.n THEN iter.batch_size
             ELSE iter.n - iter.pos) |-> iter.pos + k]

\* The sample indices of the iterator's next batch: batch_size of them, the
\* last batch of a pass filled up with padding rows.
BatchIds(iter) ==
  [k \in 1..iter.batch_size |-> IF iter.pos + k <= iter.n THEN iter.pos + k ELSE 0]

make_iterator(dataset, batch_size, epochs_) ==
  [ds |-> dataset.name, n |-> dataset.n, batch_size |-> batch_size,
   epochs |-> epochs_, epoch |-> 0, pos |-> 0]

HasNext(iter) == iter.epoch < iter.epochs

\* The (x, y, weights) tuple of the next batch.
NextBatch(iter) ==
  LET ids == BatchIds(iter)
  IN <<[k \in DOMAIN ids |-> RowX(iter.ds, ids[k])],
       [k \in DOMAIN ids |-> RowY(iter.ds, ids[k])],
       [k \in DOMAIN ids |-> RowW(iter.ds, ids[k])]>>

Advance(iter) ==
  IF iter.pos + iter.batch_size >= iter.n
  THEN [iter EXCEPT !.epoch = @ + 1, !.pos = 0]
  ELSE [iter EXCEPT !.pos = @ + iter.batch_size]

\* get_next() at graph construction: the three output tensors of the
\* iterator's get_next operation.
get_next == [k \in 1..3 |-> [op |-> "IteratorGetNext", output |-> k]]

----------------------------------------------------------------------------
(* def input_fn(dataset, epochs): the outcomes of its two library calls are  *)
(* given by outcome.  The result records the calls made, the error that      *)
(* left input_fn (NoError: none) and the value returned.                     *)
input_fn_swapped(dataset, epochs_, outcome) ==
  IF outcome[1] # NoError
  THEN [calls |-> <<"make_iterator">>, raised |-> outcome[1],
        value |-> NoReturn, iterator |-> NoValue]
  ELSE IF outcome[2] # NoError
  THEN [calls |-> <<"make_iterator", "get_next">>, raised |-> outcome[2],
        value |-> NoReturn, iterator |-> NoValue]
  ELSE LET x == get_next[1]
           y == get_next[2]
           weights == get_next[3]
       IN [calls |-> <<"make_iterator", "get_next">>, raised |-> NoError,
           value |-> <<[x |-> x, weights |-> y], weights>>,
           iterator |-> make_iterator(dataset, BatchSize, epochs_)]

input_fn_one_epoch(dataset, epochs_, outcome) ==
  IF outcome[1] # NoError
  THEN [calls |-> <<"make_iterator">>, raised |-> outcome[1],
        value |-> NoReturn, iterator |-> NoValue]
  ELSE IF outcome[2] # NoError
  THEN [calls |-> <<"make_iterator", "get_next">>, raised |-> outcome[2],
        value |-> NoReturn, iterator |-> NoValue]
  ELSE LET x == get_next[1]
           y == get_next[2]
           weights == get_next[3]
       IN [calls |-> <<"make_iterator", "get_next">>, raised |-> NoError,
           value |-> <<[x |-> x, weights |-> weights], y>>,
           iterator |-> make_iterator(dataset, BatchSize, 1)]

input_fn_retry(dataset, epochs_, outcome) ==
  IF outcome[1] # NoError /\ outcome[2] # NoError
  THEN [calls |-> <<"make_iterator", "make_iterator">>, raised |-> outcome[2],
        value |-> NoReturn, iterator |-> NoValue]
  ELSE LET x == get_next[1]
           y == get_next[2]
           weights == get_next[3]
       IN [calls |-> IF outcome[1] # NoError
                     THEN <<"make_iterator", "make_iterator", "get_next">>
                     ELSE <<"make_iterator", "get_next">>,
           raised |-> NoError,
           value |-> <<[x |-> x, weights |-> weights], y>>,
           iterator |-> make_iterator(dataset, BatchSize, epochs_)]

input_fn(dataset, epochs_, outcome) ==
  IF outcome[1] # NoError
  THEN \* make_iterator raised: nothing catches it
       [calls |-> <<"make_iterator">>, raised |-> outcome[1],
        value |-> NoReturn, iterator |-> NoValue]
  ELSE IF outcome[2] # NoError
  THEN \* get_next raised: nothing catches it
       [calls |-> <<"make_iterator", "get_next">>, raised |-> outcome[2],
        value |-> NoReturn, iterator |-> NoValue]
  ELSE LET x == get_next[1]
           y == get_next[2]
           weights == get_next[3]
       IN [calls |-> <<"make_iterator", "get_next">>, raised |-> NoError,
           value |-> <<[x |-> x, weights |-> weights], y>>,
           iterator |-> make_iterator(dataset, BatchSize, epochs_)]

\* The value of a get_next output tensor when the batch out is pulled.
Eval(tensor, out) == out[tensor.output]

----------------------------------------------------------------------------
(* The feature and weight columns. *)
x_col_misnamed == [name |-> "X", shape |-> "n_features"]

x_col == [name |-> "x", shape |-> "n_features"]
weight_col == [name |-> "weights", shape |-> "n_tasks"]

----------------------------------------------------------------------------
(* Checkpoint directories.  model.fit writes to the DeepChem model's own     *)
(* directory; the estimator reads and writes the directory it was given.     *)
ModelDir == "model_dir"
SharedModelDir == ModelDir

EstimatorModelDir == "estimator"
Dirs == {ModelDir, EstimatorModelDir}

make_estimator(feature_columns, weight_column, metrics, model_dir) ==
  [feature_columns |-> feature_columns, weight_column |-> weight_column,
   metrics |-> metrics, model_dir |-> model_dir]

EarliestCheckpoint(ckpts) == CHOOSE c \in ckpts : \A d \in ckpts : c.step <= d.step

\* The checkpoint an estimator restores from its directory: the latest one.
LatestCheckpoint(ckpts) == CHOOSE c \in ckpts : \A d \in ckpts : d.step <= c.step

\* Where estimator.train starts: at the latest checkpoint of its directory,
\* at step 0 with fresh parameters when there is none.
StartOf(ckpts) ==
  IF ckpts = {} THEN [step |-> 0, params |-> 0] ELSE LatestCheckpoint(ckpts)

Save(ckpts, step, p) == ckpts \cup {[step |-> step, params |-> p]}

\* Times sample s occurs among the rows x of a pulled batch.
Occurrences(x, s) == Cardinality({k \in DOMAIN x : x[k][3] = s})

Deliver(d, x) ==
  LET rows == {k \in DOMAIN x : x[k][3] \in DOMAIN d}
      ids == {x[k][3] : k \in rows}
  IN IF Cardinality(ids) = Cardinality(rows)
     THEN [s \in DOMAIN d |-> IF s \in ids THEN d[s] + 1 ELSE d[s]]
     ELSE [s \in DOMAIN d |-> d[s] + Occurrences(x, s)]

----------------------------------------------------------------------------
(* The notebook, cell by cell. *)

\* Cell 2: model.fit(train_dataset, nb_epoch=100).
Fit ==
  /\ pc = "cell2"
  /\ dc_step' = dc_step + NbEpoch
  /\ dirs' = [dirs EXCEPT ![ModelDir] = Save(@, dc_step + NbEpoch, dc_step + NbEpoch)]
  /\ pc' = "cell2_evaluate"
  /\ UNCHANGED <<train_n, test_n, epochs, estimator, lib, call, it, last_batch,
                 features, labels, pulled, delivered, global_step, params,
                 first_step, timer_saves, restored, report>>
  /\ UNCHANGED aucVars

\* Cell 2: print(model.evaluate(test_dataset, [metric])).
ModelEvaluate ==
  /\ pc = "cell2_evaluate"
  /\ pc' = "cell6"
  /\ UNCHANGED <<train_n, test_n, epochs, dc_step, dirs, estimator, lib, call, it,
                 last_batch, features, labels, pulled, delivered, global_step,
                 params, first_step, timer_saves, restored, report>>
  /\ UNCHANGED aucVars

\* The DeepChem path is an alternative: cell 2 may be left out.
SkipCell2 ==
  /\ pc = "cell2"
  /\ pc' = "cell6"
  /\ UNCHANGED <<train_n, test_n, epochs, dc_step, dirs, estimator, lib, call, it,
                 last_batch, features, labels, pulled, delivered, global_step,
                 params, first_step, timer_saves, restored, report>>
  /\ UNCHANGED aucVars

\* Cell 6: estimator = model.make_estimator(...).
MakeEstimator ==
  /\ pc = "cell6"
  /\ estimator' = make_estimator(<<x_col>>, weight_col, {"mean_auc"}, EstimatorModelDir)
  /\ pc' = "cell7"
  /\ UNCHANGED <<train_n, test_n, epochs, dc_step, dirs, lib, call, it, last_batch,
                 features, labels, pulled, delivered, global_step, params,
                 first_step, timer_saves, restored, report>>
  /\ UNCHANGED aucVars

\* Cell 7: estimator.train(input_fn=lambda: input_fn(train_dataset, epochs))
\* calls the lambda once and starts from the directory's latest checkpoint.
TrainBegin ==
  /\ pc = "cell7"
  /\ \E outcome \in [1..2 -> Outcomes] :
       LET r == input_fn(train_dataset, epochs, outcome)
           start == StartOf(dirs[estimator.model_dir])
       IN /\ lib' = outcome
          /\ call' = r
          /\ IF r.raised # NoError
             THEN /\ pc' = "raised"
                  /\ UNCHANGED <<it, pulled, delivered, global_step, params>>
             ELSE /\ pc' = "training"
                  /\ it' = r.iterator
                  /\ pulled' = 0
                  /\ delivered' = [s \in 1..train_n |-> 0]
                  /\ global_step' = start.step
                  /\ params' = start.params
  /\ UNCHANGED <<train_n, test_n, epochs, dc_step, dirs, estimator, last_batch,
                 features, labels, first_step, timer_saves, restored, report>>
  /\ UNCHANGED aucVars

\* One training step: one batch pulled through the tensors input_fn returned,
\* one gradient update.  The saver hook saves after the first step and when
\* its timer is due.
TrainStep ==
  /\ pc = "training"
  /\ HasNext(it)
  /\ LET out == NextBatch(it)
     IN /\ last_batch' = out
        /\ features' = [k \in DOMAIN call.value[1] |-> Eval(call.value[1][k], out)]
        /\ labels' = Eval(call.value[2], out)
        /\ delivered' = Deliver(delivered, out[1])
  /\ it' = Advance(it)
  /\ pulled' = pulled + 1
  /\ global_step' = global_step + 1
  /\ params' = params + 1
  /\ first_step' = IF first_step = 0 THEN global_step + 1 ELSE first_step
  /\ \E due \in BOOLEAN :
       /\ due => timer_saves < MaxTimerSaves /\ pulled > 0
       /\ timer_saves' = IF due THEN timer_saves + 1 ELSE timer_saves
       /\ dirs' = IF due \/ pulled = 0
                  THEN [dirs EXCEPT ![estimator.model_dir] =
                          Save(@, global_step + 1, params + 1)]
                  ELSE dirs
  /\ UNCHANGED <<pc, train_n, test_n, epochs, dc_step, estimator, lib, call,
                 restored, report>>
  /\ UNCHANGED aucVars

\* The iterator is exhausted: train saves a last checkpoint and returns.
TrainEnd ==
  /\ pc = "training"
  /\ ~HasNext(it)
  /\ dirs' = [dirs EXCEPT ![estimator.model_dir] = Save(@, global_step, params)]
  /\ pc' = "cell7_evaluate"
  /\ UNCHANGED <<train_n, test_n, epochs, dc_step, estimator, lib, call, it,
                 last_batch, features, labels, pulled, delivered, global_step,
                 params, first_step, timer_saves, restored, report>>
  /\ UNCHANGED aucVars

\* Cell 7: estimator.evaluate(input_fn=lambda: input_fn(test_dataset, 1))
\* calls the lambda once and restores a checkpoint of the directory.
EvalBegin ==
  /\ pc = "cell7_evaluate"
  /\ \E outcome \in [1..2 -> Outcomes] :
       LET r == input_fn(test_dataset, EvalEpochs, outcome)
       IN /\ lib' = outcome
          /\ call' = r
          /\ IF r.raised # NoError
             THEN /\ pc' = "raised"
                  /\ UNCHANGED <<it, pulled, delivered, restored>>
             ELSE /\ pc' = "evaluating"
                  /\ it' = r.iterator
                  /\ pulled' = 0
                  /\ delivered' = [s \in 1..test_n |-> 0]
                  /\ restored' = LatestCheckpoint(dirs[estimator.model_dir])
  /\ UNCHANGED <<train_n, test_n, epochs, dc_step, dirs, estimator, last_batch,
                 features, labels, global_step, params, first_step, timer_saves,
                 report>>
  /\ UNCHANGED aucVars

\* One evaluation step: one batch pulled, no parameter changed.
EvalStep ==
  /\ pc = "evaluating"
  /\ HasNext(it)
  /\ LET out == NextBatch(it)
     IN /\ last_batch' = out
        /\ features' = [k \in DOMAIN call.value[1] |-> Eval(call.value[1][k], out)]
        /\ labels' = Eval(call.value[2], out)
        /\ delivered' = Deliver(delivered, out[1])
  /\ it' = Advance(it)
  /\ pulled' = pulled + 1
  /\ UNCHANGED <<pc, train_n, test_n, epochs, dc_step, dirs, estimator, lib, call,
                 global_step, params, first_step, timer_saves, restored, report>>
  /\ UNCHANGED aucVars

\* The iterator is exhausted: evaluate returns its dict.
EvalEnd ==
  /\ pc = "evaluating"
  /\ ~HasNext(it)
  /\ report' = [global_step |-> restored.step, params |-> restored.params,
                steps |-> pulled]
  /\ pc' = "done"
  /\ UNCHANGED <<train_n, test_n, epochs, dc_step, dirs, estimator, lib, call, it,
                 last_batch, features, labels, pulled, delivered, global_step,
                 params, first_step, timer_saves, restored>>
  /\ UNCHANGED aucVars

AucIdle ==
  /\ n_tasks = 1 /\ i = 0 /\ metric_ops = <<>> /\ update_ops = <<>>
  /\ mean_metric = NoValue /\ update_all = NoValue /\ acc = <<>> /\ fed = <<>>
  /\ updates = 0 /\ mean_value = <<>> /\ apc = "idle"

Init ==
  /\ pc = "cell2"
  /\ train_n \in DatasetSizes
  /\ test_n \in DatasetSizes
  /\ epochs \in 1..MaxEpochs
  /\ dc_step = 0
  /\ dirs = [d \in Dirs |-> {}]
  /\ estimator = NoValue
  /\ lib = [k \in 1..2 |-> NoError]
  /\ call = NoValue
  /\ it = NoValue
  /\ last_batch = NoValue
  /\ features = NoValue
  /\ labels = NoValue
  /\ pulled = 0
  /\ delivered = <<>>
  /\ global_step = 0
  /\ params = 0
  /\ first_step = 0
  /\ timer_saves = 0
  /\ restored = NoValue
  /\ report = NoValue
  /\ AucIdle

Next ==
  \/ Fit
  \/ ModelEvaluate
  \/ SkipCell2
  \/ MakeEstimator
  \/ TrainBegin
  \/ TrainStep
  \/ TrainEnd
  \/ EvalBegin
  \/ EvalStep
  \/ EvalEnd

Spec == Init /\ [][Next]_vars

----------------------------------------------------------------------------
(* tf.metrics.auc, tf.stack, tf.reduce_mean and tf.group.  A streaming AUC  *)
(* keeps weighted confusion counts; with predictions that are 0 or 1 its    *)
(* trapezoidal value is (1 + tp/(tp+fn) - fp/(fp+tn)) / 2, and 0 when one   *)
(* of the two classes has no weight.  Values are exact fractions <<p, q>>.  *)
ZeroCounts == [tp |-> 0, fn |-> 0, tn |-> 0, fp |-> 0, runs |-> 0]

\* One run of a metric's update operation on a sample (label, prediction, weight).
AucUpdate(a, l, p, w) ==
  [tp |-> a.tp + (IF l = 1 /\ p = 1 THEN w ELSE 0),
   fn |-> a.fn + (IF l = 1 /\ p = 0 THEN w ELSE 0),
   tn |-> a.tn + (IF l = 0 /\ p = 0 THEN w ELSE 0),
   fp |-> a.fp + (IF l = 0 /\ p = 1 THEN w ELSE 0),
   runs |-> a.runs + 1]

AucValue(a) ==
  LET pos == a.tp + a.fn
      neg == a.fp + a.tn
  IN IF pos = 0 \/ neg = 0 THEN <<0, 1>>
     ELSE <<pos * neg + a.tp * neg - a.fp * pos, 2 * pos * neg>>

RatAdd(p, q) == <<p[1] * q[2] + q[1] * p[2], p[2] * q[2]>>
RatEq(p, q) == p[1] * q[2] = q[1] * p[2]

RECURSIVE RatSum(_)
RatSum(values) ==
  IF values = <<>> THEN <<0, 1>> ELSE RatAdd(Head(values), RatSum(Tail(values)))

\* tf.reduce_mean of a stacked vector of values.
reduce_mean(values) ==
  LET total == RatSum(values) IN <<total[1], total[2] * Len(values)>>

\* tensor[:, j]
SliceFirst(tensor, j) == [tensor |-> tensor, column |-> 0]

Slice(tensor, j) == [tensor |-> tensor, column |-> j]

\* The value of a column slice for the sample b.
SliceValue(slice, b) == b[slice.tensor][slice.column + 1]

\* tf.metrics.auc(labels, predictions, weights) with accumulator id: the pair
\* (metric, update).
auc(l, p, w, id) ==
  <<[op |-> "auc", acc |-> id],
    [op |-> "auc_update", acc |-> id, labels |-> l, predictions |-> p, weights |-> w]>>

group_first(ops) == [op |-> "group", inputs |-> SubSeq(ops, 1, 1)]

\* tf.group(*ops)
group(ops) == [op |-> "group", inputs |-> ops]

\* Running a group runs each of its inputs.
RECURSIVE RunUpdates(_, _, _)
RunUpdates(ops, a, b) ==
  IF ops = <<>> THEN a
  ELSE LET u == Head(ops)
       IN RunUpdates(Tail(ops),
                     [a EXCEPT ![u.acc] = AucUpdate(@, SliceValue(u.labels, b),
                                                    SliceValue(u.predictions, b),
                                                    SliceValue(u.weights, b))],
                     b)

\* The samples a run of update_all is given: per task a label, a prediction
\* and a weight; a missing label (weight 0) is stored as label 0.
Samples(n) ==
  {b \in [labels : [1..n -> {0, 1}], predictions : [1..n -> {0, 1}],
          weights : [1..n -> {0, 1}]] :
     \A t \in 1..n : b.weights[t] = 0 => b.labels[t] = 0}

----------------------------------------------------------------------------
(* def mean_auc(labels, predictions, weights), statement by statement, and  *)
(* the two things the estimator does with what it returns.                  *)

PipeIdle ==
  /\ pc = "idle" /\ train_n = 1 /\ test_n = 1 /\ epochs = 1 /\ dc_step = 0
  /\ dirs = [d \in Dirs |-> {}] /\ estimator = NoValue
  /\ lib = [k \in 1..2 |-> NoError] /\ call = NoValue /\ it = NoValue
  /\ last_batch = NoValue /\ features = NoValue /\ labels = NoValue
  /\ pulled = 0 /\ delivered = <<>> /\ global_step = 0 /\ params = 0
  /\ first_step = 0 /\ timer_saves = 0 /\ restored = NoValue /\ report = NoValue

\* metric_ops = []; update_ops = []
MeanAucEnter ==
  /\ apc = "call"
  /\ metric_ops' = <<>>
  /\ update_ops' = <<>>
  /\ i' = 0
  /\ apc' = "loop"
  /\ UNCHANGED <<n_tasks, mean_metric, update_all, acc, fed, updates, mean_value>>
  /\ UNCHANGED pipeVars

\* for i in range(n_tasks): one per-task metric, appended to both lists
LoopBody ==
  /\ apc = "loop"
  /\ i < n_tasks
  /\ LET made == auc(Slice("labels", i), Slice("predictions", i), Slice("weights", i),
                     Len(acc) + 1)
     IN /\ acc' = Append(acc, ZeroCounts)
        /\ metric_ops' = Append(metric_ops, made[1])
        /\ update_ops' = Append(update_ops, made[2])
  /\ i' = i + 1
  /\ UNCHANGED <<n_tasks, mean_metric, update_all, fed, updates, mean_value, apc>>
  /\ UNCHANGED pipeVars

\* mean_metric = tf.reduce_mean(tf.stack(metric_ops));
\* update_all = tf.group(*update_ops); return mean_metric, update_all
LoopExit ==
  /\ apc = "loop"
  /\ i >= n_tasks
  /\ mean_metric' = [op |-> "reduce_mean", inputs |-> metric_ops]
  /\ update_all' = group(update_ops)
  /\ apc' = "returned"
  /\ UNCHANGED <<n_tasks, i, metric_ops, update_ops, acc, fed, updates, mean_value>>
  /\ UNCHANGED pipeVars

\* The estimator runs update_all on a batch.
RunUpdateAll ==
  /\ apc = "returned"
  /\ updates < MaxUpdates
  /\ \E b \in Samples(n_tasks) :
       /\ acc' = RunUpdates(update_all.inputs, acc, b)
       /\ fed' = [t \in 1..n_tasks |->
                    AucUpdate(fed[t], b.labels[t], b.predictions[t], b.weights[t])]
  /\ updates' = updates + 1
  /\ mean_value' = <<>>
  /\ UNCHANGED <<n_tasks, i, metric_ops, update_ops, mean_metric, update_all, apc>>
  /\ UNCHANGED pipeVars

\* The estimator reads the value of mean_metric.
ReadMean ==
  /\ apc = "returned"
  /\ mean_value' = reduce_mean([k \in DOMAIN mean_metric.inputs |->
                                  AucValue(acc[mean_metric.inputs[k].acc])])
  /\ UNCHANGED <<n_tasks, i, metric_ops, update_ops, mean_metric, update_all, acc,
                 fed, updates, apc>>
  /\ UNCHANGED pipeVars

InitAuc ==
  /\ PipeIdle
  /\ n_tasks \in 1..MaxTasks
  /\ i = 0
  /\ metric_ops = <<>>
  /\ update_ops = <<>>
  /\ mean_metric = NoValue
  /\ update_all = NoValue
  /\ acc = <<>>
  /\ fed = [t \in 1..n_tasks |-> ZeroCounts]
  /\ updates = 0
  /\ mean_value = <<>>
  /\ apc = "call"

NextAuc ==
  \/ MeanAucEnter
  \/ LoopBody
  \/ LoopExit
  \/ RunUpdateAll
  \/ ReadMean

SpecAuc == InitAuc /\ [][NextAuc]_vars

----------------------------------------------------------------------------
(* Properties of the input adapter and of the estimator path. *)

HasEstimator == pc \notin {"cell2", "cell2_evaluate", "cell6"}
Called == pc \notin {"cell2", "cell2_evaluate", "cell6", "cell7"}
HasBatch == first_step # 0

TrainReturned ==
  \/ pc \in {"cell7_evaluate", "evaluating", "done"}
  \/ pc = "raised" /\ first_step # 0

FinalStep == epochs * CeilDiv(train_n, BatchSize)

\* C1: input_fn returns a pair of a mapping with exactly the keys 'x' and
\* 'weights' and the label tensor, and for every batch pulled 'x' holds the
\* features, 'weights' the weights and the second element the labels of the
\* one tuple (x, y, weights) the iterator yielded: nothing is swapped and
\* nothing comes from another batch.
C1_SameBatch ==
  /\ (Called /\ call.raised = NoError) =>
       /\ Len(call.value) = 2
       /\ DOMAIN call.value[1] = {"x", "weights"}
  /\ HasBatch =>
       /\ DOMAIN features = {"x", "weights"}
       /\ features.x = last_batch[1]
       /\ labels = last_batch[2]
       /\ features.weights = last_batch[3]
       /\ \A k \in DOMAIN labels :
            /\ features.x[k] = RowX(labels[k][2], labels[k][3])
            /\ labels[k] = RowY(labels[k][2], labels[k][3])
            /\ features.weights[k] = RowW(labels[k][2], labels[k][3])

C1_Witness ==
  /\ pc = "training"
  /\ pulled = 2
  /\ features.x[1] = RowX("train", BatchSize + 1)
  /\ labels[1] = RowY("train", BatchSize + 1)

\* C3: when the iterator behind input_fn(dataset, epochs) is exhausted, every
\* sample of the dataset has been delivered exactly epochs times (once for
\* input_fn(test_dataset, 1)), and never more than that before.
C3_EverySampleEpochsTimes ==
  /\ pc \in {"training", "cell7_evaluate"} =>
       /\ DOMAIN delivered = 1..train_n
       /\ \A s \in 1..train_n : delivered[s] <= epochs
       /\ ~HasNext(it) => \A s \in 1..train_n : delivered[s] = epochs
  /\ pc \in {"evaluating", "done"} =>
       /\ DOMAIN delivered = 1..test_n
       /\ \A s \in 1..test_n : delivered[s] <= 1
       /\ ~HasNext(it) => \A s \in 1..test_n : delivered[s] = 1

C3_Witness ==
  /\ pc = "training"
  /\ ~HasNext(it)
  /\ epochs = 2
  /\ train_n = BatchSize + 1
  /\ delivered[train_n] = 2

\* C4: every batch pulled through input_fn has exactly 100 samples, the last
\* batch of a pass included, whatever the number of samples of the dataset.
C4_FixedBatchSize ==
  HasBatch =>
    /\ Len(features.x) = 100
    /\ Len(features.weights) = 100
    /\ Len(labels) = 100

C4_Witness ==
  /\ pc = "training"
  /\ train_n = BatchSize + 1
  /\ pulled = 2
  /\ features.x[1] = RowX("train", train_n)

\* C6: the names of the columns given to make_estimator are the keys of the
\* mapping input_fn returns, {'x', 'weights'}; feature_columns is the column
\* named 'x' and weight_column the column named 'weights'.
C6_ColumnNamesMatchKeys ==
  (HasEstimator /\ Called /\ call.raised = NoError) =>
    LET names == {estimator.feature_columns[k].name :
                    k \in DOMAIN estimator.feature_columns}
                 \cup {estimator.weight_column.name}
    IN /\ names = DOMAIN call.value[1]
       /\ names = {"x", "weights"}
       /\ Len(estimator.feature_columns) = 1
       /\ estimator.feature_columns[1].name = "x"
       /\ estimator.weight_column.name = "weights"
       /\ HasBatch => DOMAIN features = names

C6_Witness ==
  /\ pc = "training"
  /\ pulled >= 1
  /\ estimator.weight_column.name \in DOMAIN features

\* C7: when make_iterator or get_next fails, input_fn returns no value, the
\* library's error reaches the caller as raised, and neither library call is
\* made a second time.
C7_FailurePropagates ==
  Called =>
    LET failing == {j \in 1..2 : lib[j] # NoError}
        order == <<"make_iterator", "get_next">>
    IN /\ \A j, k \in DOMAIN call.calls : call.calls[j] = call.calls[k] => j = k
       /\ failing = {} => call.raised = NoError
       /\ failing # {} =>
            LET j == CHOOSE m \in failing : \A o \in failing : m <= o
            IN /\ call.raised = lib[j]
               /\ call.value = NoReturn
               /\ call.calls = SubSeq(order, 1, j)
               /\ pc = "raised"

C7_Witness ==
  /\ pc = "raised"
  /\ lib[1] # NoError
  /\ lib[2] # NoError
  /\ lib[1] # lib[2]
  /\ call.raised = lib[1]

\* C8: estimator.train, given no step limit, stops when the iterator is
\* exhausted, after exactly epochs * ceil(N / 100) steps, one per batch pulled:
\* every step of a running train pulls one batch and advances the global step
\* by one, the steps never exceed epochs * ceil(N / 100), train returns exactly
\* when that many are taken, and a batch is left exactly until then.
C8_TrainTerminates ==
  /\ [](pc = "training" =>
          /\ global_step = pulled
          /\ global_step <= epochs * ((train_n + 99) \div 100)
          /\ HasNext(it) <=> global_step < epochs * ((train_n + 99) \div 100))
  /\ [](TrainReturned => global_step = epochs * ((train_n + 99) \div 100))
  /\ [][(pc = "training") =>
          \/ pc' = "training" /\ global_step' = global_step + 1
                              /\ pulled' = pulled + 1
          \/ pc' = "cell7_evaluate" /\ global_step' = global_step
                                    /\ ~HasNext(it)]_vars

C8_Witness ==
  /\ pc = "cell7_evaluate"
  /\ epochs = 2
  /\ train_n = BatchSize + 1
  /\ global_step = 4

\* C9: estimator.evaluate, run after train returned, evaluates the parameters
\* of the checkpoint of the final training step and reports that step as
\* global_step; it does not advance training.
C9_EvaluatesFinalCheckpoint ==
  /\ pc \in {"evaluating", "done"} =>
       /\ restored = [step |-> FinalStep, params |-> params]
       /\ global_step = FinalStep
  /\ pc = "done" =>
       /\ report.global_step = FinalStep
       /\ report.params = params

C9_Witness ==
  /\ pc = "done"
  /\ timer_saves = 1
  /\ report.global_step > 2
  /\ Cardinality(dirs[EstimatorModelDir]) = 3

\* C10: estimator.train starts at global step 0 (first logged step 1) and
\* ends at the same final step whether or not model.fit ran before, and
\* model.fit / model.evaluate leave the checkpoints of the estimator's
\* directory, its global step and its parameters unchanged.
C10_PathsIndependent ==
  /\ [](first_step # 0 => first_step = 1)
  /\ [](TrainReturned => global_step = FinalStep)
  /\ [][(pc = "cell2" \/ pc = "cell2_evaluate") =>
          (dirs'[EstimatorModelDir] = dirs[EstimatorModelDir]
           /\ UNCHANGED <<global_step, params, first_step>>)]_vars

C10_Witness ==
  /\ dc_step = NbEpoch
  /\ dirs[ModelDir] # {}
  /\ first_step = 1
  /\ TrainReturned

----------------------------------------------------------------------------
(* Properties of mean_auc. *)

\* The mean of the per-task AUC values of the data fed so far.
MeanOfTasks ==
  LET total == RatSum([t \in 1..n_tasks |-> AucValue(fed[t])])
  IN <<total[1], total[2] * n_tasks>>

\* C2: mean_auc creates exactly n_tasks per-task AUC metrics, the i-th from
\* column i of labels, of predictions and of weights, no column skipped or
\* used twice, and the value of the metric it returns is the arithmetic mean
\* of exactly those n_tasks values.
C2_MeanOfPerTaskAuc ==
  /\ [](apc = "returned" =>
          /\ Len(metric_ops) = n_tasks
          /\ Len(update_ops) = n_tasks
          /\ Len(acc) = n_tasks
          /\ mean_metric.inputs = metric_ops
          /\ \A t \in 1..n_tasks :
               /\ update_ops[t].labels = [tensor |-> "labels", column |-> t - 1]
               /\ update_ops[t].predictions = [tensor |-> "predictions", column |-> t - 1]
               /\ update_ops[t].weights = [tensor |-> "weights", column |-> t - 1]
               /\ metric_ops[t].acc = update_ops[t].acc
               /\ \A u \in 1..n_tasks : metric_ops[t].acc = metric_ops[u].acc => t = u
               /\ AucValue(acc[metric_ops[t].acc]) = AucValue(fed[t]))
  /\ [][ReadMean => /\ RatEq(mean_value', MeanOfTasks)
                    /\ mean_value'[2] # 0]_vars

C2_Witness ==
  /\ apc = "returned"
  /\ n_tasks = 2
  /\ updates = 2
  /\ Len(mean_value) = 2
  /\ RatEq(mean_value, MeanOfTasks)
  /\ RatEq(mean_value, <<3, 4>>)
  /\ AucValue(fed[1]) # AucValue(fed[2])

\* C5: every run of update_all runs the update operation of every one of the
\* n_tasks per-task metrics; mean_auc keeps no state of its own, so nothing
\* but the metrics' accumulators changes once it has returned, and reading
\* the mean changes no accumulator.
C5_CombinedUpdate ==
  /\ [](apc = "returned" =>
          \A t \in 1..n_tasks :
            /\ acc[update_ops[t].acc].runs = updates
            /\ acc[update_ops[t].acc] = fed[t])
  /\ [][(apc = "returned") =>
          (/\ UNCHANGED <<n_tasks, i, metric_ops, update_ops, mean_metric, update_all, apc>>
           /\ (ReadMean => UNCHANGED acc)
           /\ (acc' # acc => updates' = updates + 1))]_vars

C5_Witness ==
  /\ apc = "returned"
  /\ n_tasks = 2
  /\ updates = 2
  /\ Len(mean_value) = 2
  /\ \A t \in 1..n_tasks : acc[update_ops[t].acc].runs = 2
  /\ acc[1] # acc[2]

====
